---- MODULE Spec2Model ----
(***************************************************************************)
(* Model of the algebra crate: the 256-bit prime-field element Fp25519     *)
(* (src/algebra/src/example.rs) and the affine-point group law of          *)
(* Curve25519 built on it.                                                 *)
(*                                                                         *)
(* Machine integers keep their width.  A u64 is a little-endian sequence   *)
(* of four 16-bit digits, a u128 one of eight, so every wrapping add,      *)
(* wrapping sub, 128-bit product, cast and shift of the source is computed *)
(* exactly.  An Fp25519 is its `value` array: a sequence of four u64,      *)
(* least significant limb first.                                           *)
(***************************************************************************)
EXTENDS Integers, Sequences, FiniteSets, TLC

(***************************************************************************)
(* u64 / u128 arithmetic                                                   *)
(***************************************************************************)
\* A digit holds 16 bits; HalfBase splits one in two bytes.
Base == 2 ^ 16
HalfBase == 2 ^ 8

\* A small number as a u64 / u128.
U64(k) == <<k, 0, 0, 0>>
U128(k) == <<k, 0, 0, 0, 0, 0, 0, 0>>

\* u64::MAX
MaxU64 == <<Base - 1, Base - 1, Base - 1, Base - 1>>

\* `x as u128` for a u64 x.
AsU128(limb) == limb \o <<0, 0, 0, 0>>

\* `x as u64` for a u128 x (truncation), and `x >> 64`.
AsU64(wide) == SubSeq(wide, 1, 4)
Shr64(wide) == SubSeq(wide, 5, 8) \o <<0, 0, 0, 0>>

\* u64::wrapping_add: digit-wise addition with carry, modulo 2^64.
wrapping_add(a, b) ==
  LET t1 == a[1] + b[1]
      t2 == a[2] + b[2] + (t1 \div Base)
      t3 == a[3] + b[3] + (t2 \div Base)
      t4 == a[4] + b[4] + (t3 \div Base)
  IN <<t1 % Base, t2 % Base, t3 % Base, t4 % Base>>

\* The carry out of a u64 addition a + b + c, c a carry in.
CarryOut(a, b, c) ==
  LET t1 == a[1] + b[1] + c
      t2 == a[2] + b[2] + (t1 \div Base)
      t3 == a[3] + b[3] + (t2 \div Base)
  IN (a[4] + b[4] + (t3 \div Base)) \div Base

\* `+` on u128, modulo 2^128 (the source never overflows it): the low
\* halves, then the high halves with the carry of the low ones.
Add128(a, b) ==
  wrapping_add(AsU64(a), AsU64(b))
    \o wrapping_add(wrapping_add(SubSeq(a, 5, 8), SubSeq(b, 5, 8)),
                    U64(CarryOut(AsU64(a), AsU64(b), 0)))

\* The borrow out of a digit difference.
Borrow(t) == IF t < 0 THEN 1 ELSE 0

\* u64::wrapping_sub: digit-wise subtraction with borrow, modulo 2^64.
wrapping_sub(a, b) ==
  LET t1 == a[1] - b[1]
      t2 == a[2] - b[2] - Borrow(t1)
      t3 == a[3] - b[3] - Borrow(t2)
      t4 == a[4] - b[4] - Borrow(t3)
  IN <<t1 % Base, t2 % Base, t3 % Base, t4 % Base>>

\* a >= b on equally long digit sequences: a < b exactly when some digit of
\* a is smaller and all more significant digits are equal.
Ge(a, b) ==
  ~\E i \in 1..Len(a) :
      /\ a[i] < b[i]
      /\ \A j \in (i + 1)..Len(a) : a[j] = b[j]

\* `-=` on u128, modulo 2^128 (the source guards it by >=): the low halves,
\* then the high halves less the borrow of the low ones.
Sub128(a, b) ==
  wrapping_sub(AsU64(a), AsU64(b))
    \o wrapping_sub(wrapping_sub(SubSeq(a, 5, 8), SubSeq(b, 5, 8)),
                    U64(IF Ge(AsU64(a), AsU64(b)) THEN 0 ELSE 1))

\* The product of two 16-bit digits as <<low digit, high digit>>; the
\* second factor is split in two so that no intermediate exceeds 2^31.
DigitMul(d, e) ==
  LET p1 == d * (e % HalfBase)
      p2 == d * (e \div HalfBase)
      m == p1 + (p2 % HalfBase) * HalfBase
  IN <<m % Base, (p2 \div HalfBase) + (m \div Base)>>

\* The digit product a[i] * b[k - i] (0-based) if column k has one.
ColumnTerm(a, b, k, i) ==
  IF k - i >= 0 /\ k - i <= 3 THEN DigitMul(a[i + 1], b[k - i + 1]) ELSE <<0, 0>>

\* Low and high digits of four digit products, summed separately.
SumTerms(d0, d1, d2, d3) ==
  <<d0[1] + d1[1] + d2[1] + d3[1], d0[2] + d1[2] + d2[2] + d3[2]>>

\* Sum of the digit products of column k (0-based).
ColumnSum(a, b, k) ==
  SumTerms(ColumnTerm(a, b, k, 0), ColumnTerm(a, b, k, 1),
           ColumnTerm(a, b, k, 2), ColumnTerm(a, b, k, 3))

\* The digits of a product from its column sums s0 .. s6, each column
\* taking the carry and the high digits of the one below.
Carried(s0, s1, s2, s3, s4, s5, s6) ==
  LET t0 == s0[1]
      t1 == s1[1] + (t0 \div Base) + s0[2]
      t2 == s2[1] + (t1 \div Base) + s1[2]
      t3 == s3[1] + (t2 \div Base) + s2[2]
      t4 == s4[1] + (t3 \div Base) + s3[2]
      t5 == s5[1] + (t4 \div Base) + s4[2]
      t6 == s6[1] + (t5 \div Base) + s5[2]
      t7 == (t6 \div Base) + s6[2]
  IN <<t0 % Base, t1 % Base, t2 % Base, t3 % Base,
       t4 % Base, t5 % Base, t6 % Base, t7 % Base>>

\* (a as u128) * (b as u128) for u64 a, b: the full 128-bit product.
WideMul(a, b) ==
  Carried(ColumnSum(a, b, 0), ColumnSum(a, b, 1), ColumnSum(a, b, 2),
          ColumnSum(a, b, 3), ColumnSum(a, b, 4), ColumnSum(a, b, 5),
          ColumnSum(a, b, 6))

\* `e >>= 1` on a u64: every digit takes the low bit of the next one up.
Shr1(e) ==
  <<(e[1] \div 2) + (e[2] % 2) * (Base \div 2),
    (e[2] \div 2) + (e[3] % 2) * (Base \div 2),
    (e[3] \div 2) + (e[4] % 2) * (Base \div 2),
    e[4] \div 2>>

\* `e & 1`
LowBit(e) == e[1] % 2

(***************************************************************************)
(* Fp25519                                                                 *)
(***************************************************************************)
\* const CURVE_A: [u64; 4] = [486662, 0, 0, 0]   (486662 = 7 * 65536 + 27910)
CURVE_A == << <<27910, 7, 0, 0>>, U64(0), U64(0), U64(0) >>

\* const PRIME_MODULUS: [u64; 4] =
\*   [0xFFFFFFFFFFFFFFED, 0xFFFFFFFFFFFFFFFF, 0xFFFFFFFFFFFFFFFF, 0x7FFFFFFFFFFFFFFF]
PRIME_MODULUS ==
  << <<Base - 19, Base - 1, Base - 1, Base - 1>>,
     MaxU64,
     MaxU64,
     <<Base - 1, Base - 1, Base - 1, (Base \div 2) - 1>> >>

\* A wrong store: the top limb keeps its value when the modulus limb should
\* be subtracted from it, so the carry out of the top limb never clears.
ReduceStoreTopKept(s, acc) ==
  IF Ge(acc, AsU128(PRIME_MODULUS[s[2]]))
  THEN <<[s[1] EXCEPT ![s[2]] =
            AsU64(IF s[2] = 4 THEN acc ELSE Sub128(acc, AsU128(PRIME_MODULUS[s[2]])))],
         s[2] + 1, 1>>
  ELSE <<[s[1] EXCEPT ![s[2]] = AsU64(acc)], s[2] + 1, 0>>

\* The second half of an iteration of the loop of reduce, acc being
\* `self.value[i] as u128 + carry`: the compare, the subtraction, the
\* store; <<the limbs, the next i, the outgoing carry>>.
ReduceStore(s, acc) ==
  IF Ge(acc, AsU128(PRIME_MODULUS[s[2]]))
  THEN <<[s[1] EXCEPT ![s[2]] = AsU64(Sub128(acc, AsU128(PRIME_MODULUS[s[2]])))],
         s[2] + 1, 1>>
  ELSE <<[s[1] EXCEPT ![s[2]] = AsU64(acc)], s[2] + 1, 0>>

\* One iteration of the loop of reduce on s = <<limbs, i (1-based), carry>>.
ReduceLimb(s) == ReduceStore(s, Add128(AsU128(s[1][s[2]]), U128(s[3])))

\* The `for i in 0..4` loop of reduce from s on.
RECURSIVE ReducePass(_)
ReducePass(s) == IF s[2] > 4 THEN s ELSE ReducePass(ReduceLimb(s))

\* A wrong reduce: one pass, never re-invoked when a carry remains.
reduceOnce(v) == ReducePass(<<v, 1, 0>>)[1]

RECURSIVE reduce(_)

\* `if carry > 0 { self.reduce(); }` after the pass that left s.
ReduceCheck(s) == IF s[3] > 0 THEN reduce(s[1]) ELSE s[1]

\* fn reduce(&mut self): the pass, re-invoked while a carry remains.
reduce(v) == ReduceCheck(ReducePass(<<v, 1, 0>>))

\* pub fn new(value: [u64; 4]) -> Self
new(v) == reduce(v)

one == new(<<U64(1), U64(0), U64(0), U64(0)>>)

zero == new(<<U64(0), U64(0), U64(0), U64(0)>>)

is_zero(a) == a = <<U64(0), U64(0), U64(0), U64(0)>>

\* impl Add: limb-wise wrapping_add, then reduce.
add(a, b) ==
  reduce(<<wrapping_add(a[1], b[1]), wrapping_add(a[2], b[2]),
           wrapping_add(a[3], b[3]), wrapping_add(a[4], b[4])>>)

\* impl Sub: limb-wise wrapping_sub, then reduce.
sub(a, b) ==
  reduce(<<wrapping_sub(a[1], b[1]), wrapping_sub(a[2], b[2]),
           wrapping_sub(a[3], b[3]), wrapping_sub(a[4], b[4])>>)

\* The body of `if i + j < 4` in mul for row i (0-based) with prod computed;
\* s = <<result, j, carry>>.
MulStore(i, s, prod) ==
  <<[s[1] EXCEPT ![i + s[2] + 1] = wrapping_add(s[1][i + s[2] + 1], AsU64(prod))],
    s[2] + 1, Shr64(prod)>>

\* The inner `for j in 0..4` loop of mul for row i, from s on.
RECURSIVE MulRow(_, _, _, _)
MulRow(a, b, i, s) ==
  IF s[2] > 3 THEN s[1]
  ELSE IF i + s[2] < 4
       THEN MulRow(a, b, i,
                   MulStore(i, s, Add128(WideMul(a[i + 1], b[s[2] + 1]), s[3])))
       ELSE MulRow(a, b, i, <<s[1], s[2] + 1, s[3]>>)

\* The outer `for i in 0..4` loop of mul; s = <<self, rhs, result, i>>.
RECURSIVE MulRows(_)
MulRows(s) ==
  IF s[4] > 3 THEN s[3]
  ELSE MulRows(<<s[1], s[2], MulRow(s[1], s[2], s[4], <<s[3], 0, U128(0)>>), s[4] + 1>>)

\* impl Mul: partial products landing in limbs 0..3 only, then new.
mul(a, b) == new(MulRows(<<a, b, <<U64(0), U64(0), U64(0), U64(0)>>, 0>>))

\* Field::square (default method)
square(a) == mul(a, a)

\* impl Neg: zero is returned as is; otherwise every limb becomes
\* PRIME_MODULUS[0].wrapping_sub(limb), then reduce.
neg(a) ==
  IF is_zero(a) THEN a
  ELSE reduce(<<wrapping_sub(PRIME_MODULUS[1], a[1]), wrapping_sub(PRIME_MODULUS[1], a[2]),
                wrapping_sub(PRIME_MODULUS[1], a[3]), wrapping_sub(PRIME_MODULUS[1], a[4])>>)

\* One iteration of the `while e > 0` loop of pow; s = <<base, result, e>>.
PowIter(s) ==
  <<mul(s[1], s[1]),
    IF LowBit(s[3]) = 1 THEN mul(s[2], s[1]) ELSE s[2],
    Shr1(s[3])>>

\* At most k iterations of the loop.
RECURSIVE PowIters(_, _)
PowIters(s, k) ==
  IF k = 0 \/ s[3] = U64(0) THEN s
  ELSE PowIters(PowIter(s), k - 1)

\* The `while e > 0` loop of pow, run eight iterations at a time, which
\* bounds the depth of the evaluation.
RECURSIVE PowLoop(_)
PowLoop(s) ==
  IF s[3] = U64(0) THEN s[2]
  ELSE PowLoop(PowIters(s, 8))

\* fn pow(&self, exp: u64) -> Self
pow(a, e) == PowLoop(<<a, one, e>>)

\* Option<T>: None is the empty sequence, Some(v) the sequence <<v>>.
None == <<>>
Some(v) == <<v>>
unwrap(o) == o[1]

\* fn inverse(&self) -> Option<Self>
inverse(a) ==
  IF is_zero(a) THEN None
  ELSE Some(pow(a, wrapping_sub(PRIME_MODULUS[1], U64(2))))

(***************************************************************************)
(* Curve25519 over AffinePoint<Fp25519>                                    *)
(***************************************************************************)
\* A call either returns a value or panics (Option::unwrap on None).
Panic == <<>>
Returned(v) == <<v>>
value_of(r) == r[1]

\* AffinePoint { x, y, infinity }
AffinePoint(px, py, inf) == [x |-> px, y |-> py, infinity |-> inf]

\* fn identity() -> Self::Point
identity == AffinePoint(zero, zero, TRUE)

\* The lets that follow `slope` in add_points and double_point, one after
\* the other; s lists the values in scope: <<p1, p2, slope>>, then x3.
\* let x3 = slope.clone().square() - p1.x.clone() - p2.x.clone();
LetX3(s) == s \o <<sub(sub(square(s[3]), s[1].x), s[2].x)>>

\* let y3 = slope * (p1.x.clone() - x3.clone()) - p1.y.clone();
\* AffinePoint { x: x3, y: y3, infinity: false }
PointOf(s) ==
  Returned(AffinePoint(s[4], sub(mul(s[3], sub(s[1].x, s[4])), s[1].y), FALSE))

\* let slope = (...) * (...).inverse().unwrap(), inv being the inverse and
\* num the left factor; then the lets after it.
FromSlope(p1, p2, num, inv) ==
  IF inv = None THEN Panic
  ELSE PointOf(LetX3(<<p1, p2, mul(num, unwrap(inv))>>))

\* fn double_point(p: &AffinePoint<Fp25519>) -> AffinePoint<Fp25519>
double_point(pt) ==
  IF pt.infinity \/ is_zero(pt.y) THEN Returned(identity)
  ELSE FromSlope(pt, pt,
                 add(mul(square(pt.x), new(<<U64(3), U64(0), U64(0), U64(0)>>)),
                     new(CURVE_A)),
                 inverse(mul(pt.y, new(<<U64(2), U64(0), U64(0), U64(0)>>))))

\* The point addition formula of add_points (p1.x # p2.x).
add_formula(p1, p2) ==
  FromSlope(p1, p2, sub(p2.y, p1.y), inverse(sub(p2.x, p1.x)))

\* A wrong add_points: equal x always doubles, the `p1.y == p2.y` test is
\* dropped.
add_points_always_double(p1, p2) ==
  IF p1.infinity THEN Returned(p2)
  ELSE IF p2.infinity THEN Returned(p1)
  ELSE IF p1.x = p2.x THEN double_point(p1)
  ELSE add_formula(p1, p2)

\* fn add_points(p1: &Self::Point, p2: &Self::Point) -> Self::Point
add_points(p1, p2) ==
  IF p1.infinity THEN Returned(p2)
  ELSE IF p2.infinity THEN Returned(p1)
  ELSE IF p1.x = p2.x
       THEN IF p1.y = p2.y THEN double_point(p1) ELSE Returned(identity)
  ELSE add_formula(p1, p2)

(***************************************************************************)
(* Inputs                                                                  *)
(***************************************************************************)
Limbs(l0, l1, l2, l3) == <<l0, l1, l2, l3>>

\* PRIME_MODULUS[0] - 1, PRIME_MODULUS[3] - 1 and neighbours.
P0Minus1 == <<Base - 20, Base - 1, Base - 1, Base - 1>>
P3Minus1 == <<Base - 2, Base - 1, Base - 1, (Base \div 2) - 1>>
P3Plus1 == <<0, 0, 0, Base \div 2>>
MaxU64Minus1 == <<Base - 2, Base - 1, Base - 1, Base - 1>>
Pow2_63Plus1 == <<1, 0, 0, Base \div 2>>
Pow2_62Minus1 == <<Base - 1, Base - 1, Base - 1, (Base \div 4) - 1>>

\* Raw four-limb values handed to Fp25519::new.
RawTwo == Limbs(U64(2), U64(0), U64(0), U64(0))
RawP0Minus1 == Limbs(P0Minus1, U64(0), U64(0), U64(0))
RawLowMax == Limbs(MaxU64, U64(0), U64(0), U64(0))
RawAllMax == Limbs(MaxU64, MaxU64, MaxU64, MaxU64)
RawInputs == {RawTwo, RawP0Minus1, RawLowMax, RawAllMax}

\* The elements the registers start from.
Elems == {new(RawTwo), new(RawP0Minus1)}

\* Exponents handed to pow.
Exps == {U64(0), U64(5)}

\* Operations applied in one run of the field machine.
MaxOps == 2

(***************************************************************************)
(* State                                                                   *)
(***************************************************************************)
VARIABLES
  x,       \* field machine: the element operated on (self)
  y,       \* field machine: a second element, the other operand
  last,    \* field machine: the last operation, its operands and its output
  n,       \* field machine: operations applied so far
  rvalue,  \* reduce: self.value
  ri,      \* reduce: the loop index i
  rcarry,  \* reduce: carry
  rpc,     \* reduce: "loop", "check" (the `if carry > 0`), "done"
  rinput,  \* reduce: self.value when reduce was first entered
  rdepth,  \* reduce: whether reduce has re-invoked itself
  p,       \* curve machine: the point operated on (p1)
  q,       \* curve machine: a second point (p2)
  clast,   \* curve machine: the last call, its arguments and its outcome
  cn,      \* curve machine: calls made so far
  spoint,  \* scalar_mul: the argument `point`
  sscalar, \* scalar_mul: the argument `scalar`
  sresult, \* scalar_mul: result
  stemp,   \* scalar_mul: temp
  sbits,   \* scalar_mul: bits
  slimb,   \* scalar_mul: position of `s` in scalar (1-based)
  siter,   \* scalar_mul: iterations of `for _ in 0..64` done for this limb
  spc      \* scalar_mul: "loop", "done", "panicked"

fieldVars == <<x, y, last, n>>
reduceVars == <<rvalue, ri, rcarry, rpc, rinput, rdepth>>
curveVars == <<p, q, clast, cn>>
scalarVars == <<spoint, sscalar, sresult, stemp, sbits, slimb, siter, spc>>
vars == <<fieldVars, reduceVars, curveVars, scalarVars>>

\* The integer value of four limbs is below that of PRIME_MODULUS.
Flat(v) == v[1] \o v[2] \o v[3] \o v[4]
Canonical(v) == ~Ge(Flat(v), Flat(PRIME_MODULUS))

(***************************************************************************)
(* The field machine: a caller applying Fp25519 operations one after the   *)
(* other, each to the result of the one before.                            *)
(***************************************************************************)
Op(name, a, b, out) == [op |-> name, a |-> a, b |-> b, out |-> out]

FieldIdle ==
  /\ x = zero
  /\ y = zero
  /\ last = Op("idle", zero, zero, None)
  /\ n = 0

FieldInit ==
  /\ x \in Elems
  /\ y \in Elems
  /\ last = Op("init", x, y, None)
  /\ n = 0

New(v) ==
  /\ n < MaxOps
  /\ x' = new(v)
  /\ last' = Op("new", v, v, Some(x'))
  /\ n' = n + 1
  /\ UNCHANGED <<y, reduceVars, curveVars, scalarVars>>

Add(b) ==
  /\ n < MaxOps
  /\ x' = add(x, b)
  /\ last' = Op("add", x, b, Some(x'))
  /\ n' = n + 1
  /\ UNCHANGED <<y, reduceVars, curveVars, scalarVars>>

Sub(b) ==
  /\ n < MaxOps
  /\ x' = sub(x, b)
  /\ last' = Op("sub", x, b, Some(x'))
  /\ n' = n + 1
  /\ UNCHANGED <<y, reduceVars, curveVars, scalarVars>>

Mul(b) ==
  /\ n < MaxOps
  /\ x' = mul(x, b)
  /\ last' = Op("mul", x, b, Some(x'))
  /\ n' = n + 1
  /\ UNCHANGED <<y, reduceVars, curveVars, scalarVars>>

Neg ==
  /\ n < MaxOps
  /\ x' = neg(x)
  /\ last' = Op("neg", x, x, Some(x'))
  /\ n' = n + 1
  /\ UNCHANGED <<y, reduceVars, curveVars, scalarVars>>

Pow(e) ==
  /\ n < MaxOps
  /\ x' = pow(x, e)
  /\ last' = Op("pow", x, x, Some(x'))
  /\ n' = n + 1
  /\ UNCHANGED <<y, reduceVars, curveVars, scalarVars>>

Inverse ==
  /\ n < MaxOps
  /\ \E inv \in {inverse(x)} :
        /\ x' = IF inv = None THEN x ELSE unwrap(inv)
        /\ last' = Op("inverse", x, x, inv)
  /\ n' = n + 1
  /\ UNCHANGED <<y, reduceVars, curveVars, scalarVars>>

(***************************************************************************)
(* reduce, one loop iteration at a time                                    *)
(***************************************************************************)
ReduceLimb0 == {U64(0), P0Minus1, PRIME_MODULUS[1], MaxU64}
ReduceLimb12 == {U64(0), MaxU64Minus1, MaxU64}
ReduceLimb3 == {U64(0), P3Minus1, PRIME_MODULUS[4], P3Plus1, MaxU64}
ReduceInputs ==
  {Limbs(l0, l1, l2, l3) : l0 \in ReduceLimb0, l1 \in ReduceLimb12,
                            l2 \in ReduceLimb12, l3 \in ReduceLimb3}

ReduceIdle ==
  /\ rvalue = zero
  /\ ri = 0
  /\ rcarry = 0
  /\ rpc = "idle"
  /\ rinput = zero
  /\ rdepth = FALSE

ReduceInit ==
  /\ rvalue \in ReduceInputs
  /\ rinput = rvalue
  /\ ri = 0
  /\ rcarry = 0
  /\ rpc = "loop"
  /\ rdepth = FALSE

\* for i in 0..4 { ... }
ReduceIter ==
  /\ rpc = "loop"
  /\ ri < 4
  /\ \E r \in {ReduceLimb(<<rvalue, ri + 1, rcarry>>)} :
        /\ rvalue' = r[1]
        /\ rcarry' = r[3]
  /\ ri' = ri + 1
  /\ rpc' = IF ri' = 4 THEN "check" ELSE "loop"
  /\ UNCHANGED <<rinput, rdepth, fieldVars, curveVars, scalarVars>>

\* if carry > 0 { self.reduce(); }
ReduceAgain ==
  /\ rpc = "check"
  /\ rcarry > 0
  /\ ri' = 0
  /\ rcarry' = 0
  /\ rpc' = "loop"
  /\ rdepth' = TRUE
  /\ UNCHANGED <<rvalue, rinput, fieldVars, curveVars, scalarVars>>

\* carry = 0: every invocation returns.
ReduceReturn ==
  /\ rpc = "check"
  /\ rcarry = 0
  /\ rpc' = "done"
  /\ UNCHANGED <<rvalue, ri, rcarry, rinput, rdepth, fieldVars, curveVars, scalarVars>>

(***************************************************************************)
(* The curve machine: a caller applying add_points and double_point, each  *)
(* to the point the call before returned.  A panic ends the run.           *)
(***************************************************************************)
\* Coordinates: a pair of x whose difference reduces to zero, and y's with
\* their negations, among them one whose double reduces to zero.
XLow == new(Limbs(U64(19), U64(2), U64(2), U64(0)))
XHigh == new(Limbs(U64(0), U64(0), U64(0), P3Minus1))
YHalf == new(Limbs(U64(0), U64(0), P3Plus1, Pow2_62Minus1))
CoordX == {XLow, XHigh}
CoordY == {zero, one, neg(one), YHalf, neg(YHalf)}
Points == {identity} \cup {AffinePoint(cx, cy, FALSE) : cx \in CoordX, cy \in CoordY}

\* Calls made in one run of the curve machine.
MaxCurveOps == 2

Call(name, p1, p2, out) == [op |-> name, p1 |-> p1, p2 |-> p2, out |-> out]

CurveIdle ==
  /\ p = identity
  /\ q = identity
  /\ clast = Call("idle", identity, identity, Returned(identity))
  /\ cn = 0

CurveInit ==
  /\ p \in Points
  /\ q \in Points
  /\ clast = Call("init", p, q, Returned(p))
  /\ cn = 0

AddPoints ==
  /\ cn < MaxCurveOps
  /\ clast.out # Panic
  /\ \E out \in {add_points(p, q)} :
        /\ clast' = Call("add_points", p, q, out)
        /\ p' = IF out = Panic THEN p ELSE value_of(out)
  /\ cn' = cn + 1
  /\ UNCHANGED <<q, fieldVars, reduceVars, scalarVars>>

DoublePoint ==
  /\ cn < MaxCurveOps
  /\ clast.out # Panic
  /\ \E out \in {double_point(p)} :
        /\ clast' = Call("double_point", p, p, out)
        /\ p' = IF out = Panic THEN p ELSE value_of(out)
  /\ cn' = cn + 1
  /\ UNCHANGED <<q, fieldVars, reduceVars, scalarVars>>

(***************************************************************************)
(* scalar_mul, one iteration of `for _ in 0..64` at a time                 *)
(***************************************************************************)
YLate == new(Limbs(U64(0), U64(1), Pow2_63Plus1, Pow2_62Minus1))
ScalarPoints ==
  {identity,
   AffinePoint(new(Limbs(U64(9), U64(0), U64(0), U64(0))), one, FALSE),
   AffinePoint(new(Limbs(U64(9), U64(0), U64(0), U64(0))), YLate, FALSE)}
Scalars == {<<U64(2)>>, <<U64(0), U64(1)>>}

\* for _ in 0..64
BitsPerLimb == 64

ScalarIdle ==
  /\ spoint = identity
  /\ sscalar = <<>>
  /\ sresult = identity
  /\ stemp = identity
  /\ sbits = U64(0)
  /\ slimb = 0
  /\ siter = 0
  /\ spc = "idle"

\* let mut result = Self::identity(); let mut temp = point.clone();
ScalarInit ==
  /\ spoint \in ScalarPoints
  /\ sscalar \in Scalars
  /\ sresult = identity
  /\ stemp = spoint
  /\ slimb = 1
  /\ sbits = sscalar[1]
  /\ siter = 0
  /\ spc = "loop"

\* if bits & 1 == 1 { result = add_points(&result, &temp); }
\* temp = double_point(&temp); bits >>= 1;
ScalarStep ==
  /\ spc = "loop"
  /\ siter < BitsPerLimb
  /\ \E r \in {IF LowBit(sbits) = 1 THEN add_points(sresult, stemp) ELSE Returned(sresult)} :
     \E d \in {IF r = Panic THEN Panic ELSE double_point(stemp)} :
        IF d = Panic
        THEN /\ spc' = "panicked"
             /\ UNCHANGED <<sresult, stemp, sbits, siter>>
        ELSE /\ sresult' = value_of(r)
             /\ stemp' = value_of(d)
             /\ sbits' = Shr1(sbits)
             /\ siter' = siter + 1
             /\ UNCHANGED spc
  /\ UNCHANGED <<spoint, sscalar, slimb, fieldVars, reduceVars, curveVars>>

\* for &s in scalar { let mut bits = s; ... }: the next limb.
ScalarNextLimb ==
  /\ spc = "loop"
  /\ siter = BitsPerLimb
  /\ slimb < Len(sscalar)
  /\ slimb' = slimb + 1
  /\ sbits' = sscalar[slimb + 1]
  /\ siter' = 0
  /\ UNCHANGED <<spoint, sscalar, sresult, stemp, spc, fieldVars, reduceVars, curveVars>>

\* result
ScalarReturn ==
  /\ spc = "loop"
  /\ siter = BitsPerLimb
  /\ slimb = Len(sscalar)
  /\ spc' = "done"
  /\ UNCHANGED <<spoint, sscalar, sresult, stemp, sbits, slimb, siter, fieldVars, reduceVars, curveVars>>

(***************************************************************************)
(* Specifications                                                          *)
(***************************************************************************)
Init == FieldInit /\ ReduceIdle /\ CurveIdle /\ ScalarIdle
Next ==
  \/ \E v \in RawInputs : New(v)
  \/ \E b \in {x, y} : Add(b)
  \/ \E b \in {x, y} : Sub(b)
  \/ \E b \in {x, y} : Mul(b)
  \/ Neg
  \/ \E e \in Exps : Pow(e)
  \/ Inverse
Spec == Init /\ [][Next]_vars

InitReduce == FieldIdle /\ ReduceInit /\ CurveIdle /\ ScalarIdle
NextReduce == ReduceIter \/ ReduceAgain \/ ReduceReturn
SpecReduce == InitReduce /\ [][NextReduce]_vars
\* reduce is straight-line code: a step that can be taken is taken.
FairSpecReduce == SpecReduce /\ WF_vars(NextReduce)

InitCurve == FieldIdle /\ ReduceIdle /\ CurveInit /\ ScalarIdle
NextCurve == AddPoints \/ DoublePoint
SpecCurve == InitCurve /\ [][NextCurve]_vars

InitScalar == FieldIdle /\ ReduceIdle /\ CurveIdle /\ ScalarInit
NextScalar == ScalarStep \/ ScalarNextLimb \/ ScalarReturn
SpecScalar == InitScalar /\ [][NextScalar]_vars

(***************************************************************************)
(* Claims                                                                  *)
(***************************************************************************)
\* C1: after any sequence of new, add, sub, mul, neg, pow and inverse every
\* resulting element is canonical: the integer value of its limbs is in
\* [0, p), p the integer of PRIME_MODULUS.
C1_Canonical ==
  /\ Canonical(x)
  /\ Canonical(y)
  /\ last.out # None => Canonical(unwrap(last.out))

\* C1 witness: a second operation in a row has produced an inverse.
C1_Witness ==
  /\ n = 2
  /\ last.op = "inverse"
  /\ last.out # None
  /\ Canonical(unwrap(last.out))

\* C2: Fp25519::new(v) stores exactly the limbs of v whenever the integer
\* value of v is already below the modulus.
C2_NewRoundTrip ==
  (last.op = "new" /\ Canonical(last.a)) => last.out = Some(last.a)

\* C3: a + (-a) == zero for every element a.
C3_AdditiveInverse ==
  last.op = "neg" => add(last.a, unwrap(last.out)) = zero

\* C4: (a + b) + c == a + (b + c) for all elements a, b, c.
C4_AddAssociative ==
  last.op = "add" =>
    \A c \in Elems : add(unwrap(last.out), c) = add(last.a, add(last.b, c))

\* C5: a.inverse() is None exactly when a is zero, and for nonzero a it is
\* Some(b) with a * b == one.
C5_InverseContract ==
  last.op = "inverse" =>
    /\ last.out = None <=> is_zero(last.a)
    /\ last.out # None => mul(last.a, unwrap(last.out)) = one

\* C6: in the general branch of add_points (neither point at infinity,
\* p1.x # p2.x) the denominator p2.x - p1.x is nonzero and the unwrap of its
\* inverse does not fail.
C6_AddDenominatorNonzero ==
  (/\ clast.op = "add_points"
   /\ ~clast.p1.infinity
   /\ ~clast.p2.infinity
   /\ clast.p1.x # clast.p2.x)
  => /\ ~is_zero(sub(clast.p2.x, clast.p1.x))
     /\ clast.out # Panic

\* C7: in double_point(P) with P not at infinity and P.y nonzero, the
\* denominator P.y * 2 is nonzero and the unwrap of its inverse does not fail.
C7_DoubleDenominatorNonzero ==
  (/\ clast.op = "double_point"
   /\ ~clast.p1.infinity
   /\ ~is_zero(clast.p1.y))
  => /\ ~is_zero(mul(clast.p1.y, new(Limbs(U64(2), U64(0), U64(0), U64(0)))))
     /\ clast.out # Panic

\* C8: for every P = (x, y, false), y zero or not,
\* add_points(P, (x, -y, false)) returns the identity.
C8_NegationLaw ==
  (/\ clast.op = "add_points"
   /\ ~clast.p1.infinity
   /\ clast.p2 = AffinePoint(clast.p1.x, neg(clast.p1.y), FALSE))
  => clast.out = Returned(identity)

\* C8 witness: a point with nonzero y was added to its negation and the
\* identity came back.
C8_Witness ==
  /\ clast.op = "add_points"
  /\ ~clast.p1.infinity
  /\ ~is_zero(clast.p1.y)
  /\ clast.p2 = AffinePoint(clast.p1.x, neg(clast.p1.y), FALSE)
  /\ clast.out = Returned(identity)

\* C9: scalar_mul(P, [2]) completes and returns add_points(P, P).
C9_ScalarMulTwo ==
  sscalar = <<U64(2)>> =>
    /\ spc # "panicked"
    /\ spc = "done" => Returned(sresult) = add_points(spoint, spoint)

\* C10: reduce terminates: on every input a pass ends with no carry and the
\* re-invocations stop.
C10_ReduceTerminates == <>(rpc = "done")

\* C10 witness: reduce has re-invoked itself and has returned.
C10_Witness == rpc = "done" /\ rdepth
====
